---- MODULE Spec2Model ----
(***************************************************************************)
(* Deployment registry of the DeBros CLI (services/network.ts, bundled in  *)
(* src/src/index.ts): an append-only OrbitDB feed of AppData events, the   *)
(* two materialized views getAllApps / getAppVersions, and the commands    *)
(* announceDeployment, rollbackToVersion, startApplication,                *)
(* stopApplication and deleteApplication that append to the feed and       *)
(* publish on the pubsub topics.                                           *)
(*                                                                         *)
(* Timestamps are the millisecond instants that `new Date().toISOString()` *)
(* writes and `new Date(ts).getTime()` reads back; the ISO string keeps    *)
(* exactly the millisecond value, so an event's timestamp is modelled by   *)
(* that integer.  Writers are independent processes with their own clocks, *)
(* so the instant of an append is any value of Times.                      *)
(***************************************************************************)
EXTENDS Integers, Sequences, FiniteSets, TLC

\* ---------------------------------------------------------------- bounds
MaxLog == 3
MaxTime == 2

Times == 1..MaxTime
Apps == {"blog", "shop"}
\* the app the commands are issued for; the other app is a bystander whose
\* deployments share the feed
Targets == {"blog"}
Tags == {"v1", "v2"}
\* versionTag of rollbackToVersion is optional: undefined (and "") is falsy
NoTag == ""
\* (appName, cid, version, domain) handed to announceDeployment; domain ""
\* is the parameter left out, "www.debros.sol" what upload passes for
\* `--domain www`
Deployable ==
  { <<"blog", "c1", "v1", "">>, <<"blog", "c2", "v2", "www.debros.sol">>,
    <<"shop", "c3", "v1", "">> }
\* where an awaited call of the invocation throws
Faults == {"none", "read", "publish", "add", "pubdata"}

defaultDomain == "debros.sol"

\* ------------------------------------------------------------- data model
AppData(appName, cid, version, timestamp, deployed, domain, status) ==
  [appName |-> appName, cid |-> cid, version |-> version,
   timestamp |-> timestamp, deployed |-> deployed, domain |-> domain,
   status |-> status]

\* `${appName}.${config.defaultDomain}`
DomainOf(appName) == appName \o "." \o defaultDomain

\* ---------------------------------------------------------- array helpers
\* Array.prototype.reverse
Reverse(s) == [i \in 1..Len(s) |-> s[Len(s) + 1 - i]]

\* Array.prototype.sort((a, b) => new Date(b.timestamp) - new Date(a.timestamp)):
\* newest first; equal timestamps keep their input order (the sort of the
\* engine is stable, and for the short arrays here it always was).
RECURSIVE sortByTimestampDesc(_)
sortByTimestampDesc(s) ==
  IF Len(s) <= 1 THEN s
  ELSE LET rest == sortByTimestampDesc(SubSeq(s, 1, Len(s) - 1))
           x == s[Len(s)]
           k == Cardinality({i \in 1..Len(rest) : rest[i].timestamp >= x.timestamp})
       IN SubSeq(rest, 1, k) \o <<x>> \o SubSeq(rest, k + 1, Len(rest))

\* Array.prototype.findIndex(v => v.deployed), 0 for JavaScript's -1
findIndexDeployed(s) ==
  IF \E i \in 1..Len(s) : s[i].deployed
  THEN CHOOSE i \in 1..Len(s) :
         s[i].deployed /\ \A j \in 1..(i - 1) : ~s[j].deployed
  ELSE 0

\* findIndexTag that falls back to the first entry when no tag matches
findIndexTag_OrFirst(s, tag) ==
  IF \E i \in 1..Len(s) : s[i].tag = tag
  THEN CHOOSE i \in 1..Len(s) :
         s[i].tag = tag /\ \A j \in 1..(i - 1) : s[j].tag # tag
  ELSE IF Len(s) > 0 THEN 1 ELSE 0

\* Array.prototype.findIndex(v => v.tag === tag), 0 for -1
findIndexTag(s, tag) ==
  IF \E i \in 1..Len(s) : s[i].tag = tag
  THEN CHOOSE i \in 1..Len(s) :
         s[i].tag = tag /\ \A j \in 1..(i - 1) : s[j].tag # tag
  ELSE 0

\* Array.prototype.findIndex(app => app.appName === appName), 0 for -1
findIndexApp(s, appName) ==
  IF \E i \in 1..Len(s) : s[i].appName = appName
  THEN CHOOSE i \in 1..Len(s) :
         s[i].appName = appName /\ \A j \in 1..(i - 1) : s[j].appName # appName
  ELSE 0

\* ------------------------------------------------------ materialized views
\* appMapStep with <= for <: among equal timestamps the first appended wins
appMapStep_OrEqual(m, appData) ==
  LET j == findIndexApp(m, appData.appName)
  IN IF j = 0 THEN Append(m, appData)
     ELSE IF m[j].timestamp <= appData.timestamp
          THEN [m EXCEPT ![j] = appData]
          ELSE m

\* One step of the forEach of getAllApps on the Map (kept as the sequence of
\* its values in insertion order): set the app's record when the Map has no
\* record of the app or holds a strictly older one.
appMapStep(m, appData) ==
  LET j == findIndexApp(m, appData.appName)
  IN IF j = 0 THEN Append(m, appData)
     ELSE IF m[j].timestamp < appData.timestamp
          THEN [m EXCEPT ![j] = appData]
          ELSE m

RECURSIVE appMapFold(_, _)
appMapFold(m, rest) ==
  IF rest = <<>> THEN m
  ELSE appMapFold(appMapStep(m, Head(rest)), Tail(rest))

\* getAllApps without the grouping by appName: every entry is returned
getAllApps_Ungrouped(entries) == Reverse(entries)

\* getAllApps on the collected entries: entries.reverse().forEach(...), then
\* Array.from(appMap.values())
getAllApps(entries) == appMapFold(<<>>, Reverse(entries))

\* appEntriesOf without the filter on appName
appEntriesOf_AllApps(entries, appName) ==
  [i \in 1..Len(entries) |->
     [tag |-> entries[i].version, cid |-> entries[i].cid,
      timestamp |-> entries[i].timestamp, deployed |-> entries[i].deployed]]

\* the entries of one app, mapped to {tag, cid, timestamp, deployed}
appEntriesOf(entries, appName) ==
  LET mine == SelectSeq(entries, LAMBDA e : e.appName = appName)
  IN [i \in 1..Len(mine) |->
        [tag |-> mine[i].version, cid |-> mine[i].cid,
         timestamp |-> mine[i].timestamp, deployed |-> mine[i].deployed]]

\* markLatestDeployed that leaves the deployed flags as the events had them
markLatestDeployed_AsStored(versions) == versions

\* "Mark only the latest version as deployed if any are deployed"
markLatestDeployed(versions) ==
  LET latestDeployedIndex == findIndexDeployed(versions)
  IN IF latestDeployedIndex # 0
     THEN [i \in 1..Len(versions) |->
             [versions[i] EXCEPT !.deployed = (i = latestDeployedIndex)]]
     ELSE versions

\* getAppVersions on the collected entries
getAppVersions(entries, appName) ==
  markLatestDeployed(sortByTimestampDesc(appEntriesOf(entries, appName)))

\* ------------------------------------------------ effects of an invocation
\* An invocation's awaited calls on the outside world, in program order:
\* initIpfs / stopIpfs, the feed's iterator and add, and pubsub publish.
NoMsg == [type |-> "none"]
T(k) == [k |-> k, topic |-> "", m |-> NoMsg]
Pub(topic, message) == [k |-> "publish", topic |-> topic, m |-> message]
Add(appData) == [k |-> "add", topic |-> "application_data", m |-> appData]

\* error.message of what the store and the bus throw; the messages of the
\* structured failures of rollbackToVersion / startApplication
StorageUnavailable == "StorageUnavailable"
PublishFailed == "PublishFailed"
NoVersionsFound == "No versions found"
VersionNotFound == "Version not found"
NoPreviousVersion == "No previous versions found to rollback to"

\* getApplicationDataDB, then db.iterator({limit: -1}).collect(): the entries
\* in store order, or a throw when the store cannot be opened or read
collectRun(l, f) ==
  IF f = "read"
  THEN [threw |-> TRUE, entries |-> <<>>, trace |-> <<T("initIpfs")>>]
  ELSE [threw |-> FALSE, entries |-> l,
        trace |-> <<T("initIpfs"), T("iterate")>>]

\* the async function getAllApps: the value, or a rethrow
getAllAppsRun(l, f) ==
  LET c == collectRun(l, f)
  IN IF c.threw THEN [threw |-> TRUE, ret |-> <<>>, trace |-> c.trace]
     ELSE [threw |-> FALSE, ret |-> getAllApps(c.entries),
           trace |-> c.trace \o <<T("stopIpfs")>>]

\* the async function getAppVersions
getAppVersionsRun(l, appName, f) ==
  LET c == collectRun(l, f)
  IN IF c.threw THEN [threw |-> TRUE, ret |-> <<>>, trace |-> c.trace]
     ELSE [threw |-> FALSE, ret |-> getAppVersions(c.entries, appName),
           trace |-> c.trace \o <<T("stopIpfs")>>]

\* the async function checkAppNameAvailability
checkAppNameAvailabilityRun(l, appName, f) ==
  LET c == collectRun(l, f)
      existingApps ==
        SelectSeq([i \in 1..Len(c.entries) |-> c.entries[i].appName],
                  LAMBDA name : name = appName)
  IN IF c.threw THEN [threw |-> TRUE, ret |-> FALSE, trace |-> c.trace]
     ELSE [threw |-> FALSE, ret |-> (Len(existingApps) = 0),
           trace |-> c.trace \o <<T("stopIpfs")>>]

\* db.add that stores the value under its appName, like a keyed put: an
\* event of the app already in the feed is replaced
dbAdd_PutByAppName(l, appData) ==
  Append(SelectSeq(l, LAMBDA e : e.appName # appData.appName), appData)

\* db.add that takes a value equal to an entry of the feed as already there
dbAdd_UnlessPresent(l, appData) ==
  IF \E i \in 1..Len(l) : l[i] = appData THEN l ELSE Append(l, appData)

\* db.add(appData) on the feed: the value becomes the feed's last entry
dbAdd(l, appData) == Append(l, appData)

\* the async function storeAppData: db.add, then the app-data-update
\* broadcast, then stopIpfs; whatever throws is rethrown
storeAppDataRun(l, appData, f) ==
  LET message == [type |-> "app-data-update", appData |-> appData]
  IN IF f = "add"
     THEN [threw |-> TRUE, log |-> l, trace |-> <<T("initIpfs")>>]
     ELSE IF f = "pubdata"
     THEN [threw |-> TRUE, log |-> dbAdd(l, appData),
           trace |-> <<T("initIpfs"), Add(appData)>>]
     ELSE [threw |-> FALSE, log |-> dbAdd(l, appData),
           trace |-> <<T("initIpfs"), Add(appData),
                       Pub("debros-app-data", message), T("stopIpfs")>>]

\* ------------------------------------------------ the record of a call
BaseCall(op, appName, l) ==
  [op |-> op, appName |-> appName, tag |-> NoTag, force |-> FALSE,
   fault |-> "none", threw |-> FALSE, success |-> FALSE, message |-> "",
   version |-> "", cid |-> "", value |-> <<>>, available |-> FALSE,
   trace |-> <<>>, logBefore |-> l]

\* return {success: false, message} from inside the try block
Returned(base, message, trace, l) ==
  [call |-> [base EXCEPT !.message = message, !.trace = trace], log |-> l]

\* the catch block of a command: {success: false, message: error.message}
Caught(base, f, trace, l) ==
  [call |-> [base EXCEPT !.fault = f, !.trace = trace,
                         !.message = IF f \in {"publish", "pubdata"}
                                     THEN PublishFailed
                                     ELSE StorageUnavailable],
   log |-> l]

\* the catch block of a function that rethrows
Rethrown(base, f, trace, l) ==
  [call |-> [base EXCEPT !.fault = f, !.trace = trace, !.threw = TRUE],
   log |-> l]

\* ----------------------------------------------------------- the commands
\* `domain || ${appName}.${config.defaultDomain}`
domainOrDefault(domain, appName) ==
  IF domain # "" THEN domain ELSE DomainOf(appName)

\* The wire payloads.  Their epoch-millisecond `timestamp: Date.now()` is
\* left out: nothing in the registry reads it back.
deploymentMessage(cid, appName, version, appDomain) ==
  [type |-> "deployment", cid |-> cid, appName |-> appName,
   version |-> version, domain |-> appDomain]

\* rollbackMessage without the isRollback marker
rollbackMessage_Unmarked(targetVersion, appName, appDomain) ==
  [type |-> "deployment", cid |-> targetVersion.cid, appName |-> appName,
   version |-> targetVersion.tag, domain |-> appDomain]

rollbackMessage(targetVersion, appName, appDomain) ==
  [type |-> "deployment", cid |-> targetVersion.cid, appName |-> appName,
   version |-> targetVersion.tag, domain |-> appDomain, isRollback |-> TRUE]

startMessage(appName, versionTag, targetVersion) ==
  [type |-> "application-action", action |-> "start", appName |-> appName,
   version |-> versionTag, cid |-> targetVersion.cid]

stopMessage(appName, force) ==
  [type |-> "application-action", action |-> "stop", appName |-> appName,
   force |-> force]

deleteMessage(appName, force) ==
  [type |-> "application-action", action |-> "delete", appName |-> appName,
   force |-> force]

\* The events handed to storeAppData
deploymentAppData(appName, cid, version, now, appDomain) ==
  AppData(appName, cid, version, now, TRUE, appDomain, "running")

rollbackAppData(appName, targetVersion, now, appDomain) ==
  AppData(appName, targetVersion.cid, targetVersion.tag, now, TRUE, appDomain,
          "running")

\* startAppData that copies the timestamp of the version it starts
startAppData_VersionTime(appName, targetVersion, versionTag, now, appDomain) ==
  AppData(appName, targetVersion.cid, versionTag, targetVersion.timestamp,
          TRUE, appDomain, "running")

startAppData(appName, targetVersion, versionTag, now, appDomain) ==
  AppData(appName, targetVersion.cid, versionTag, now, TRUE, appDomain,
          "running")

\* stopAppData that builds the event anew, with the app's default domain
stopAppData_DefaultDomain(appData, now) ==
  AppData(appData.appName, appData.cid, appData.version, now,
          appData.deployed, DomainOf(appData.appName), "stopped")

\* {...appData, status: 'stopped', timestamp: new Date().toISOString()}
stopAppData(appData, now) ==
  [appData EXCEPT !.status = "stopped", !.timestamp = now]

\* announceDeployment: publish the deployment message, then storeAppData;
\* returns true or rethrows.  domain "" is the parameter's default; every
\* domain handed in here already ends with the default domain.
announceDeployment(l, cid, appName, version, domain, now, f) ==
  LET base == [BaseCall("announceDeployment", appName, l)
                 EXCEPT !.tag = version, !.version = version, !.cid = cid]
      appDomain == domainOrDefault(domain, appName)
      message == deploymentMessage(cid, appName, version, appDomain)
      t1 == <<T("initIpfs")>>
      t2 == t1 \o <<Pub("debros-deploy", message)>>
      st == storeAppDataRun(l,
              deploymentAppData(appName, cid, version, now, appDomain), f)
  IN IF f = "publish" THEN Rethrown(base, f, t1, l)
     ELSE IF st.threw THEN Rethrown(base, f, t2 \o st.trace, st.log)
     ELSE [call |-> [base EXCEPT !.success = TRUE,
                                 !.trace = t2 \o st.trace \o <<T("stopIpfs")>>],
           log |-> st.log]

\* otherVersionsOf without the filter on deployed
otherVersionsOf_All(versions) == sortByTimestampDesc(versions)

\* the versions rollbackToVersion calls "previous (not current)"
otherVersionsOf(versions) ==
  sortByTimestampDesc(SelectSeq(versions, LAMBDA v : ~v.deployed))

NoVersion == [tag |-> "", cid |-> "", timestamp |-> 0, deployed |-> FALSE]

\* rollbackTarget that looks the tag up before it checks for no versions
rollbackTarget_TagFirst(versions, versionTag) ==
  LET ti == findIndexTag(versions, versionTag)
      otherVersions == otherVersionsOf(versions)
  IN IF versionTag # NoTag
     THEN IF ti = 0
          THEN [message |-> VersionNotFound, target |-> NoVersion]
          ELSE [message |-> "", target |-> versions[ti]]
     ELSE IF Len(versions) = 0
     THEN [message |-> NoVersionsFound, target |-> NoVersion]
     ELSE IF Len(otherVersions) = 0
          THEN [message |-> NoPreviousVersion, target |-> NoVersion]
          ELSE [message |-> "", target |-> otherVersions[1]]

\* The target of rollbackToVersion among the versions of getAppVersions, or
\* the message of the failure it returns: no version at all, the tag not
\* found, or no version other than the deployed one.
rollbackTarget(versions, versionTag) ==
  LET ti == findIndexTag(versions, versionTag)
      otherVersions == otherVersionsOf(versions)
  IN IF Len(versions) = 0
     THEN [message |-> NoVersionsFound, target |-> NoVersion]
     ELSE IF versionTag # NoTag
     THEN IF ti = 0
          THEN [message |-> VersionNotFound, target |-> NoVersion]
          ELSE [message |-> "", target |-> versions[ti]]
     ELSE IF Len(otherVersions) = 0
          THEN [message |-> NoPreviousVersion, target |-> NoVersion]
          ELSE [message |-> "", target |-> otherVersions[1]]

\* startTarget that takes the newest version once the tag is known to exist
startTarget_Newest(versions, versionTag) ==
  LET ti == findIndexTag(versions, versionTag)
  IN IF Len(versions) = 0
     THEN [message |-> NoVersionsFound, target |-> NoVersion]
     ELSE IF ti = 0
     THEN [message |-> VersionNotFound, target |-> NoVersion]
     ELSE [message |-> "", target |-> versions[1]]

\* The target of startApplication, or the message of the failure
startTarget(versions, versionTag) ==
  LET ti == findIndexTag(versions, versionTag)
  IN IF Len(versions) = 0
     THEN [message |-> NoVersionsFound, target |-> NoVersion]
     ELSE IF ti = 0
     THEN [message |-> VersionNotFound, target |-> NoVersion]
     ELSE [message |-> "", target |-> versions[ti]]

\* rollbackToVersion: never throws, every error is turned into a result.
\* Its parameter force is read nowhere in the function.
rollbackToVersion(l, appName, versionTag, domain, now, f) ==
  LET base == [BaseCall("rollbackToVersion", appName, l) EXCEPT !.tag = versionTag]
      gv == getAppVersionsRun(l, appName, f)
      t1 == <<T("initIpfs")>> \o gv.trace
      res == rollbackTarget(gv.ret, versionTag)
      targetVersion == res.target
      appDomain == domainOrDefault(domain, appName)
      message == rollbackMessage(targetVersion, appName, appDomain)
      t2 == t1 \o <<Pub("debros-deploy", message)>>
      st == storeAppDataRun(l,
              rollbackAppData(appName, targetVersion, now, appDomain), f)
  IN IF gv.threw THEN Caught(base, f, t1, l)
     ELSE IF res.message # "" THEN Returned(base, res.message, t1, l)
     ELSE IF f = "publish" THEN Caught(base, f, t1, l)
     ELSE IF st.threw THEN Caught(base, f, t2 \o st.trace, st.log)
     ELSE [call |-> [base EXCEPT !.success = TRUE,
                                 !.version = targetVersion.tag,
                                 !.cid = targetVersion.cid,
                                 !.trace = t2 \o st.trace \o <<T("stopIpfs")>>],
           log |-> st.log]

\* startApplication
startApplication(l, appName, versionTag, now, f) ==
  LET base == [BaseCall("startApplication", appName, l) EXCEPT !.tag = versionTag]
      gv == getAppVersionsRun(l, appName, f)
      t1 == <<T("initIpfs")>> \o gv.trace
      res == startTarget(gv.ret, versionTag)
      targetVersion == res.target
      message == startMessage(appName, versionTag, targetVersion)
      t2 == t1 \o <<Pub("debros-app-actions", message)>>
      ga == getAllAppsRun(l, "none")
      ai == findIndexApp(ga.ret, appName)
      \* appData?.domain || `${appName}.${config.defaultDomain}`
      appDomain == domainOrDefault(IF ai # 0 THEN ga.ret[ai].domain ELSE "",
                                   appName)
      t3 == t2 \o ga.trace
      st == storeAppDataRun(l,
              startAppData(appName, targetVersion, versionTag, now, appDomain), f)
  IN IF gv.threw THEN Caught(base, f, t1, l)
     ELSE IF res.message # "" THEN Returned(base, res.message, t1, l)
     ELSE IF f = "publish" THEN Caught(base, f, t1, l)
     ELSE IF st.threw THEN Caught(base, f, t3 \o st.trace, st.log)
     ELSE [call |-> [base EXCEPT !.success = TRUE,
                                 !.version = versionTag,
                                 !.cid = targetVersion.cid,
                                 !.trace = t3 \o st.trace \o <<T("stopIpfs")>>],
           log |-> st.log]

\* stopApplication that answers with a failure when the app has no record
stopApplication_RequiresApp(l, appName, force, now, f) ==
  LET base == [BaseCall("stopApplication", appName, l) EXCEPT !.force = force]
      message == stopMessage(appName, force)
      t1 == <<T("initIpfs")>>
      t2 == t1 \o <<Pub("debros-app-actions", message)>>
      ga == getAllAppsRun(l, f)
      ai == findIndexApp(ga.ret, appName)
      t3 == t2 \o ga.trace
  IN IF f = "publish" THEN Caught(base, f, t1, l)
     ELSE IF ga.threw THEN Caught(base, f, t3, l)
     ELSE IF ai = 0
          THEN Returned(base, NoVersionsFound, t3, l)
     ELSE
       LET st == storeAppDataRun(l, stopAppData(ga.ret[ai], now), f)
       IN IF st.threw THEN Caught(base, f, t3 \o st.trace, st.log)
          ELSE [call |-> [base EXCEPT !.success = TRUE,
                                      !.trace = t3 \o st.trace \o <<T("stopIpfs")>>],
                log |-> st.log]

\* stopApplication
stopApplication(l, appName, force, now, f) ==
  LET base == [BaseCall("stopApplication", appName, l) EXCEPT !.force = force]
      message == stopMessage(appName, force)
      t1 == <<T("initIpfs")>>
      t2 == t1 \o <<Pub("debros-app-actions", message)>>
      ga == getAllAppsRun(l, f)
      ai == findIndexApp(ga.ret, appName)
      t3 == t2 \o ga.trace
  IN IF f = "publish" THEN Caught(base, f, t1, l)
     ELSE IF ga.threw THEN Caught(base, f, t3, l)
     ELSE IF ai = 0
          THEN [call |-> [base EXCEPT !.success = TRUE,
                                      !.trace = t3 \o <<T("stopIpfs")>>],
                log |-> l]
     ELSE
       LET st == storeAppDataRun(l, stopAppData(ga.ret[ai], now), f)
       IN IF st.threw THEN Caught(base, f, t3 \o st.trace, st.log)
          ELSE [call |-> [base EXCEPT !.success = TRUE,
                                      !.trace = t3 \o st.trace \o <<T("stopIpfs")>>],
                log |-> st.log]

\* deleteApplication that drops the app's events from the feed
deleteApplication_DropsEvents(l, appName, force, f) ==
  LET base == [BaseCall("deleteApplication", appName, l) EXCEPT !.force = force]
      message == deleteMessage(appName, force)
      t1 == <<T("initIpfs")>>
      t2 == t1 \o <<Pub("debros-app-actions", message)>>
      ga == getAllAppsRun(l, f)
  IN IF f = "publish" THEN Caught(base, f, t1, l)
     ELSE IF ga.threw THEN Caught(base, f, t2 \o ga.trace, l)
     ELSE [call |-> [base EXCEPT !.success = TRUE,
                                 !.trace = t2 \o ga.trace \o <<T("stopIpfs")>>],
           log |-> SelectSeq(l, LAMBDA e : e.appName # appName)]

\* deleteApplication: broadcasts the delete action, reads the applications,
\* and stores nothing
deleteApplication(l, appName, force, f) ==
  LET base == [BaseCall("deleteApplication", appName, l) EXCEPT !.force = force]
      message == deleteMessage(appName, force)
      t1 == <<T("initIpfs")>>
      t2 == t1 \o <<Pub("debros-app-actions", message)>>
      ga == getAllAppsRun(l, f)
  IN IF f = "publish" THEN Caught(base, f, t1, l)
     ELSE IF ga.threw THEN Caught(base, f, t2 \o ga.trace, l)
     ELSE [call |-> [base EXCEPT !.success = TRUE,
                                 !.trace = t2 \o ga.trace \o <<T("stopIpfs")>>],
           log |-> l]

\* ------------------------------------------------------------ state machine
VARIABLES
  log,    \* the application_data feed: the AppData events in store order
  call,   \* the last invocation: its arguments, result and effects
  prev,   \* the invocation before the last, where two in a row are compared
  pending, \* per writer, the invocation it is in the middle of, at an await
  uploads, \* the places in the feed of the events uploadCommand stored
  listener \* the pubsub side of a node: its subscription, the handlers
           \* listenForDeployments registered, what arrived and what they did

vars == <<log, call, prev, pending, uploads, listener>>

\* the CLI processes that run at the same time on different machines
Writers == {"w1", "w2"}

NoEvent == AppData("", "", "", 0, FALSE, "", "")

\* a writer between two invocations
Idle == [pc |-> "idle", ev |-> NoEvent, upload |-> FALSE]

\* the instants the clocks of the concurrent processes show: an earlier and
\* a later one
ConcurrentTimes == {1, MaxTime}

\* the deployments the concurrent processes make: the target app's, the
\* domain left out
ConcurrentDeployable ==
  {<<d[1], d[2], d[3], "">> : d \in {x \in Deployable : x[1] \in Targets}}

\* a node on which listenForDeployments has not been called
NotListening ==
  [subscribed |-> FALSE, handlers |-> <<>>, received |-> <<>>,
   invoked |-> <<>>, logged |-> <<>>, escaped |-> <<>>]

Init ==
  /\ log = <<>>
  /\ call = BaseCall("none", "", <<>>)
  /\ prev = BaseCall("none", "", <<>>)
  /\ pending = [w \in Writers |-> Idle]
  /\ uploads = {}
  /\ listener = NotListening

\* An invocation of a command: its result is recorded and the feed becomes
\* what the command left; f is where the invocation's environment fails.
Invoke(r) ==
  /\ Len(r.log) <= MaxLog
  /\ log' = r.log
  /\ call' = r.call

AnnounceDeployment(f) ==
  \E d \in Deployable, now \in Times :
    Invoke(announceDeployment(log, d[2], d[1], d[3], d[4], now, f))

RollbackToVersion(f) ==
  \E appName \in Targets, versionTag \in Tags \cup {NoTag}, now \in Times :
    Invoke(rollbackToVersion(log, appName, versionTag, "", now, f))

StartApplication(f) ==
  \E appName \in Targets, versionTag \in Tags, now \in Times :
    Invoke(startApplication(log, appName, versionTag, now, f))

StopApplication(f) ==
  \E appName \in Targets, force \in BOOLEAN, now \in Times :
    Invoke(stopApplication(log, appName, force, now, f))

DeleteApplication(f) ==
  \E appName \in Targets, force \in BOOLEAN :
    Invoke(deleteApplication(log, appName, force, f))

\* getAllApps whose entries.reverse() reverses the feed's own array
GetAllApps_ReversesFeed(f) ==
  LET r == getAllAppsRun(log, f)
  IN /\ call' = [BaseCall("getAllApps", "", log)
                   EXCEPT !.fault = IF r.threw THEN f ELSE "none",
                          !.threw = r.threw, !.value = r.ret, !.trace = r.trace]
     /\ log' = IF r.threw THEN log ELSE Reverse(log)

GetAllApps(f) ==
  LET r == getAllAppsRun(log, f)
  IN /\ call' = [BaseCall("getAllApps", "", log)
                   EXCEPT !.fault = IF r.threw THEN f ELSE "none",
                          !.threw = r.threw, !.value = r.ret, !.trace = r.trace]
     /\ UNCHANGED log

GetAppVersions(f) ==
  \E appName \in Apps :
    LET r == getAppVersionsRun(log, appName, f)
    IN /\ call' = [BaseCall("getAppVersions", appName, log)
                     EXCEPT !.fault = IF r.threw THEN f ELSE "none",
                            !.threw = r.threw, !.value = r.ret, !.trace = r.trace]
       /\ UNCHANGED log

\* checkAppNameAvailability that reserves a name it finds free, with an
\* event of its own
CheckAppNameAvailability_Reserves(f) ==
  \E appName \in Apps :
    LET r == checkAppNameAvailabilityRun(log, appName, f)
    IN /\ Len(log) < MaxLog
       /\ call' = [BaseCall("checkAppNameAvailability", appName, log)
                     EXCEPT !.fault = IF r.threw THEN f ELSE "none",
                            !.threw = r.threw, !.available = r.ret,
                            !.trace = r.trace]
       /\ log' = IF r.ret
                 THEN Append(log, AppData(appName, "", "", 1, FALSE,
                                          DomainOf(appName), "unknown"))
                 ELSE log

CheckAppNameAvailability(f) ==
  \E appName \in Apps :
    LET r == checkAppNameAvailabilityRun(log, appName, f)
    IN /\ call' = [BaseCall("checkAppNameAvailability", appName, log)
                     EXCEPT !.fault = IF r.threw THEN f ELSE "none",
                            !.threw = r.threw, !.available = r.ret,
                            !.trace = r.trace]
       /\ UNCHANGED log

\* an invocation in a run where the one before the last is not recorded
Step(f) ==
  \/ AnnounceDeployment(f) /\ UNCHANGED <<prev, pending, uploads, listener>>
  \/ RollbackToVersion(f) /\ UNCHANGED <<prev, pending, uploads, listener>>
  \/ StartApplication(f) /\ UNCHANGED <<prev, pending, uploads, listener>>
  \/ StopApplication(f) /\ UNCHANGED <<prev, pending, uploads, listener>>
  \/ DeleteApplication(f) /\ UNCHANGED <<prev, pending, uploads, listener>>
  \/ GetAllApps(f) /\ UNCHANGED <<prev, pending, uploads, listener>>
  \/ GetAppVersions(f) /\ UNCHANGED <<prev, pending, uploads, listener>>
  \/ CheckAppNameAvailability(f) /\ UNCHANGED <<prev, pending, uploads, listener>>

\* every awaited call succeeds
Next == Step("none")

Spec == Init /\ [][Next]_vars

\* the store or the bus may fail once in an invocation
FaultyNext == \E f \in Faults : Step(f)

FaultySpec == Init /\ [][FaultyNext]_vars

\* deployments, stops and the two reads, each invocation remembering the
\* one before it
ReadNext ==
  \/ AnnounceDeployment("none") /\ prev' = call /\ UNCHANGED <<pending, uploads, listener>>
  \/ StopApplication("none") /\ prev' = call /\ UNCHANGED <<pending, uploads, listener>>
  \/ GetAllApps("none") /\ prev' = call /\ UNCHANGED <<pending, uploads, listener>>
  \/ GetAppVersions("none") /\ prev' = call /\ UNCHANGED <<pending, uploads, listener>>

ReadSpec == Init /\ [][ReadNext]_vars

\* deployments and stops that succeed, and reads whose store may fail
ReadFaults == {"none", "read"}

FailingReadNext ==
  \/ AnnounceDeployment("none") /\ UNCHANGED <<prev, pending, uploads, listener>>
  \/ StopApplication("none") /\ UNCHANGED <<prev, pending, uploads, listener>>
  \/ \E f \in ReadFaults : GetAllApps(f) /\ UNCHANGED <<prev, pending, uploads, listener>>
  \/ \E f \in ReadFaults : GetAppVersions(f) /\ UNCHANGED <<prev, pending, uploads, listener>>
  \/ \E f \in ReadFaults :
       CheckAppNameAvailability(f) /\ UNCHANGED <<prev, pending, uploads, listener>>

FailingReadSpec == Init /\ [][FailingReadNext]_vars

\* ------------------------------------------------------- a single writer
\* One process issues the commands one after the other and its clock moves
\* on between two of them: every event it stores is later than all before.
nextInstant(l) == IF l = <<>> THEN 1 ELSE l[Len(l)].timestamp + 1

WriterAnnounces ==
  \E d \in Deployable :
    Invoke(announceDeployment(log, d[2], d[1], d[3], d[4], nextInstant(log),
                              "none"))

WriterRollsBack ==
  \E appName \in Targets, versionTag \in Tags \cup {NoTag} :
    Invoke(rollbackToVersion(log, appName, versionTag, "", nextInstant(log),
                             "none"))

WriterStarts ==
  \E appName \in Targets, versionTag \in Tags :
    Invoke(startApplication(log, appName, versionTag, nextInstant(log), "none"))

WriterStops ==
  \E appName \in Targets, force \in BOOLEAN :
    Invoke(stopApplication(log, appName, force, nextInstant(log), "none"))

SingleWriterNext ==
  \/ WriterAnnounces /\ UNCHANGED <<prev, pending, uploads, listener>>
  \/ WriterRollsBack /\ UNCHANGED <<prev, pending, uploads, listener>>
  \/ WriterStarts /\ UNCHANGED <<prev, pending, uploads, listener>>
  \/ WriterStops /\ UNCHANGED <<prev, pending, uploads, listener>>

SingleWriterSpec == Init /\ [][SingleWriterNext]_vars

\* ------------------------------------------------------- the CLI commands
\* The commands of the debros executable, each run to its end before the
\* next one starts.

\* upload's --domain: `${subdomain.replace(/\.debros\.sol$/i, '')}.debros.sol`
\* with subdomain = options.domain || appName
cleanSubdomain(subdomain) ==
  IF subdomain = "www" \o "." \o defaultDomain THEN "www" ELSE subdomain

uploadDomain(option, appName) ==
  cleanSubdomain(IF option # "" THEN option ELSE appName) \o "." \o defaultDomain

\* (appName, cid of the image built, --tag, --domain) of an upload; "" is an
\* option left out
Uploadable ==
  { <<"blog", "c1", "v1", "">>, <<"blog", "c2", "v2", "www">>,
    <<"blog", "c4", "", "">>, <<"shop", "c3", "", "">> }

\* what upload logs before process.exit(1)
NameTaken == "Application name is already taken"

\* `options.tag || 'latest'` of upload, `options.version || 'latest'` of start
tagOrLatest(option) == IF option # "" THEN option ELSE "latest"

\* uploadCommand: the name must be free (checkAppNameAvailability), or the
\* process logs the error and exits with status 1; then the image is built
\* and uploaded (its cid) and the deployment announced with `${subdomain}.debros.sol`
uploadCommand(l, appName, cid, tagOption, domainOption, now) ==
  LET tag == tagOrLatest(tagOption)
      base == [BaseCall("uploadCommand", appName, l)
                 EXCEPT !.tag = tag, !.version = tag, !.cid = cid]
      ck == checkAppNameAvailabilityRun(l, appName, "none")
      domain == uploadDomain(domainOption, appName)
      an == announceDeployment(l, cid, appName, tag, domain, now, "none")
  IN IF ~ck.ret THEN Returned(base, NameTaken, ck.trace, l)
     ELSE [call |-> [base EXCEPT !.success = TRUE,
                                 !.trace = ck.trace \o an.call.trace],
           log |-> an.log]

UploadCommand ==
  \E u \in Uploadable, now \in Times :
    LET r == uploadCommand(log, u[1], u[2], u[3], u[4], now)
    IN /\ Invoke(r)
       /\ uploads' = IF Len(r.log) > Len(log) THEN uploads \cup {Len(r.log)}
                     ELSE uploads

\* startCommand: startApplication(appName, options.version || 'latest')
StartCommand ==
  \E appName \in Targets, versionOption \in Tags \cup {""}, now \in Times :
    Invoke(startApplication(log, appName, tagOrLatest(versionOption), now,
                            "none"))

\* stopCommand: stopApplication(appName, options.force)
StopCommand ==
  \E appName \in Targets, force \in BOOLEAN, now \in Times :
    Invoke(stopApplication(log, appName, force, now, "none"))

\* rollbackCommand: rollbackToVersion(appName, versionTag,
\* `${appName}.${config.defaultDomain}`, options.force)
RollbackCommand ==
  \E appName \in Targets, versionTag \in Tags \cup {NoTag}, now \in Times :
    Invoke(rollbackToVersion(log, appName, versionTag, DomainOf(appName), now,
                             "none"))

\* deleteCommand: deleteApplication(appName, options.force)
DeleteCommand ==
  \E appName \in Targets, force \in BOOLEAN :
    Invoke(deleteApplication(log, appName, force, "none"))

CliNext ==
  \/ UploadCommand /\ UNCHANGED <<prev, pending, listener>>
  \/ StartCommand /\ UNCHANGED <<prev, pending, uploads, listener>>
  \/ StopCommand /\ UNCHANGED <<prev, pending, uploads, listener>>
  \/ RollbackCommand /\ UNCHANGED <<prev, pending, uploads, listener>>
  \/ DeleteCommand /\ UNCHANGED <<prev, pending, uploads, listener>>

CliSpec == Init /\ [][CliNext]_vars

\* ------------------------------------------------- concurrent invocations
\* Two CLI processes on the same feed.  An invocation runs from await to
\* await; between its reads of the feed and its db.add the other process
\* may read and add.  What an invocation publishes is not followed here.

\* the event an invocation that found the feed l handed to storeAppData
storedBy(r, l) == IF Len(r.log) > Len(l) THEN r.log[Len(r.log)] ELSE NoEvent

\* a writer about to call storeAppData(ev)
Storing(ev) == [pc |-> "add", ev |-> ev, upload |-> FALSE]

\* a writer inside uploadCommand, about to call storeAppData(ev)
Uploading(ev) == [pc |-> "add", ev |-> ev, upload |-> TRUE]

\* announceDeployment up to its storeAppData: it reads nothing
AnnounceBegins(w) ==
  /\ pending[w].pc = "idle"
  /\ \E d \in ConcurrentDeployable, now \in ConcurrentTimes :
       /\ pending' = [pending EXCEPT ![w] =
            Storing(deploymentAppData(d[1], d[2], d[3], now,
                                      domainOrDefault(d[4], d[1])))]
  /\ UNCHANGED <<log, call, prev, uploads, listener>>

\* uploadCommand: checkAppNameAvailability; a taken name ends the process
\* (exit 1), a free one goes on to build, upload and announceDeployment
UploadChecks(w) ==
  /\ pending[w].pc = "idle"
  /\ \E d \in ConcurrentDeployable, now \in ConcurrentTimes :
       /\ pending' = [pending EXCEPT ![w] =
            IF checkAppNameAvailabilityRun(log, d[1], "none").ret
            THEN Uploading(deploymentAppData(d[1], d[2], d[3], now,
                                             uploadDomain(d[4], d[1])))
            ELSE Idle]
  /\ UNCHANGED <<log, call, prev, uploads, listener>>

\* stopApplication up to its storeAppData: the stop action, then getAllApps
StopReads(w) ==
  /\ pending[w].pc = "idle"
  /\ \E appName \in Targets, force \in BOOLEAN, now \in ConcurrentTimes :
       LET ev == storedBy(stopApplication(log, appName, force, now, "none"), log)
       IN pending' = [pending EXCEPT ![w] =
            IF ev = NoEvent THEN Idle
            ELSE Storing(ev)]
  /\ UNCHANGED <<log, call, prev, uploads, listener>>

\* rollbackToVersion up to its storeAppData: getAppVersions, the target
RollbackReads(w) ==
  /\ pending[w].pc = "idle"
  /\ \E appName \in Targets, versionTag \in Tags \cup {NoTag}, now \in ConcurrentTimes :
       LET ev == storedBy(rollbackToVersion(log, appName, versionTag, "", now,
                                            "none"), log)
       IN pending' = [pending EXCEPT ![w] =
            IF ev = NoEvent THEN Idle
            ELSE Storing(ev)]
  /\ UNCHANGED <<log, call, prev, uploads, listener>>

\* startApplication up to its storeAppData: getAppVersions, the target, the
\* start action, then getAllApps for the domain (the default domain for
\* every deployment made here, whenever it is read)
StartReads(w) ==
  /\ pending[w].pc = "idle"
  /\ \E appName \in Targets, versionTag \in Tags, now \in ConcurrentTimes :
       LET ev == storedBy(startApplication(log, appName, versionTag, now,
                                           "none"), log)
       IN pending' = [pending EXCEPT ![w] =
            IF ev = NoEvent THEN Idle ELSE Storing(ev)]
  /\ UNCHANGED <<log, call, prev, uploads, listener>>

\* storeAppData: db.add on the feed as it is now
StoreAdds(w) ==
  /\ pending[w].pc = "add"
  /\ Len(log) < MaxLog
  /\ log' = dbAdd(log, pending[w].ev)
  /\ pending' = [pending EXCEPT ![w].pc = "stored"]
  /\ uploads' = IF pending[w].upload THEN uploads \cup {Len(log) + 1}
                ELSE uploads
  /\ UNCHANGED <<call, prev, listener>>

\* storeAppData returns, and the invocation with it
StoreReturns(w) ==
  /\ pending[w].pc = "stored"
  /\ pending' = [pending EXCEPT ![w] = Idle]
  /\ UNCHANGED <<log, call, prev, uploads, listener>>

\* deleteApplication, from its delete action to its return
DeleteRuns(w) ==
  /\ pending[w].pc = "idle"
  /\ \E appName \in Targets, force \in BOOLEAN :
       log' = deleteApplication(log, appName, force, "none").log
  /\ UNCHANGED <<call, prev, pending, uploads, listener>>

\* getAllApps, getAppVersions or checkAppNameAvailability, from its iterator
\* to its return
ReadRuns(w) ==
  /\ pending[w].pc = "idle"
  /\ \E appName \in Apps :
       /\ ~getAllAppsRun(log, "none").threw
       /\ ~getAppVersionsRun(log, appName, "none").threw
       /\ ~checkAppNameAvailabilityRun(log, appName, "none").threw
  /\ UNCHANGED vars

ConcurrentNext ==
  \/ \E w \in Writers : AnnounceBegins(w)
  \/ \E w \in Writers : UploadChecks(w)
  \/ \E w \in Writers : StopReads(w)
  \/ \E w \in Writers : RollbackReads(w)
  \/ \E w \in Writers : StartReads(w)
  \/ \E w \in Writers : StoreAdds(w)
  \/ \E w \in Writers : StoreReturns(w)
  \/ \E w \in Writers : DeleteRuns(w)
  \/ \E w \in Writers : ReadRuns(w)

ConcurrentSpec == Init /\ [][ConcurrentNext]_vars

\* ------------------------------------------------ the deployment listener
\* A node that called listenForDeployments.  pubsub dispatches a "message"
\* event for every message that arrives on a topic the node follows, to each
\* registered listener in the order of registration.

\* how many messages arrive, and how many times listenForDeployments is called
MaxReceived == 3
MaxHandlers == 2

\* the callbacks handed to listenForDeployments: one that returns, one that
\* throws
Callbacks == {"returns", "throws"}

\* new TextEncoder().encode(JSON.stringify(message)): the bytes of a message
encode(message) == [json |-> TRUE, value |-> message]

\* bytes that are not the JSON text of anything
Garbage == [json |-> FALSE, value |-> NoMsg]

\* JSON.parse(new TextDecoder().decode(data)): the message, or a SyntaxError
JSONparse(data) == [threw |-> ~data.json, value |-> data.value]

\* what arrives at the node: a deployment with and without a domain and a
\* rollback on debros-deploy, bytes that do not parse, a message of another
\* type on debros-deploy, a stop action and a deployment on another topic
Inbound ==
  {[topic |-> "debros-deploy",
    data |-> encode(deploymentMessage("c2", "blog", "v2", "www.debros.sol"))],
   [topic |-> "debros-deploy",
    data |-> encode(deploymentMessage("c3", "shop", "v1", ""))],
   [topic |-> "debros-deploy",
    data |-> encode(rollbackMessage([tag |-> "v1", cid |-> "c1"], "blog",
                                    DomainOf("blog")))],
   [topic |-> "debros-deploy", data |-> Garbage],
   [topic |-> "debros-deploy", data |-> encode(stopMessage("blog", FALSE))],
   [topic |-> "debros-app-actions", data |-> encode(stopMessage("blog", TRUE))],
   [topic |-> "debros-app-actions",
    data |-> encode(deploymentMessage("c1", "blog", "v1", DomainOf("blog")))]}

\* what one listener did with one event
Handled(calls, logged, escaped) ==
  [calls |-> calls, logged |-> logged, escaped |-> escaped]

\* the listener without its try/catch: an error leaves the listener
handleMessage_NoCatch(callback, event) ==
  LET parsed == JSONparse(event.data)
      message == parsed.value
  IN IF event.topic # "debros-deploy" THEN Handled(<<>>, FALSE, FALSE)
     ELSE IF parsed.threw THEN Handled(<<>>, FALSE, TRUE)
     ELSE IF message.type # "deployment" THEN Handled(<<>>, FALSE, FALSE)
     ELSE LET argument ==
                [cid |-> message.cid, appName |-> message.appName,
                 version |-> message.version,
                 domain |-> domainOrDefault(message.domain, message.appName)]
          IN Handled(<<argument>>, FALSE, callback = "throws")

\* the listener listenForDeployments registers: for a message on
\* debros-deploy of type deployment it calls the callback; whatever is
\* thrown on the way is caught and logged
handleMessage(callback, event) ==
  LET parsed == JSONparse(event.data)
      message == parsed.value
  IN IF event.topic # "debros-deploy" THEN Handled(<<>>, FALSE, FALSE)
     ELSE IF parsed.threw THEN Handled(<<>>, TRUE, FALSE)
     ELSE IF message.type # "deployment" THEN Handled(<<>>, FALSE, FALSE)
     ELSE LET argument ==
                [cid |-> message.cid, appName |-> message.appName,
                 version |-> message.version,
                 domain |-> domainOrDefault(message.domain, message.appName)]
          IN Handled(<<argument>>, callback = "throws", FALSE)

\* the dispatch of the event that arrived as number `at` to the listeners
\* from `first` on, in the order they were registered
RECURSIVE dispatch(_, _, _, _)
dispatch(ls, first, event, at) ==
  IF first > Len(ls.handlers) THEN ls
  ELSE LET h == handleMessage(ls.handlers[first].callback, event)
           mark == [handler |-> first, at |-> at]
           after ==
             [ls EXCEPT
                !.invoked = @ \o [k \in 1..Len(h.calls) |->
                                    [handler |-> first, at |-> at,
                                     argument |-> h.calls[k]]],
                !.logged = IF h.logged THEN Append(@, mark) ELSE @,
                !.escaped = IF h.escaped THEN Append(@, mark) ELSE @]
       IN dispatch(after, first + 1, event, at)

\* listenForDeployments(callback): initIpfs, subscribe to debros-deploy, add
\* the listener; returns true, the connection left open
ListenForDeployments ==
  /\ Len(listener.handlers) < MaxHandlers
  /\ \E callback \in Callbacks :
       listener' =
         [listener EXCEPT
            !.subscribed = TRUE,
            !.handlers = Append(@, [callback |-> callback,
                                    since |-> Len(listener.received)])]
  /\ call' = [BaseCall("listenForDeployments", "", log)
                EXCEPT !.success = TRUE, !.trace = <<T("initIpfs")>>]
  /\ UNCHANGED <<log, prev, pending, uploads>>

\* a message arrives on a topic the node follows
MessageArrives ==
  /\ listener.subscribed
  /\ Len(listener.received) < MaxReceived
  /\ \E event \in Inbound :
       listener' =
         dispatch([listener EXCEPT !.received = Append(@, event)], 1, event,
                  Len(listener.received) + 1)
  /\ UNCHANGED <<log, call, prev, pending, uploads>>

\* stopListeningForDeployments: unsubscribe from debros-deploy and stopIpfs;
\* the listeners stay registered
StopListeningForDeployments ==
  /\ listener.subscribed
  /\ listener' = [listener EXCEPT !.subscribed = FALSE]
  /\ call' = [BaseCall("stopListeningForDeployments", "", log)
                EXCEPT !.success = TRUE, !.trace = <<T("stopIpfs")>>]
  /\ UNCHANGED <<log, prev, pending, uploads>>

ListenNext ==
  \/ ListenForDeployments
  \/ MessageArrives
  \/ StopListeningForDeployments

ListenSpec == Init /\ [][ListenNext]_vars

\* -------------------------------------------------------------- properties
\* the places in the feed of the events of an app
eventsOf(l, appName) == {i \in 1..Len(l) : l[i].appName = appName}

\* the event of the app with the greatest timestamp, the last appended of
\* those that share it
latestEventIndex(l, appName) ==
  CHOOSE i \in eventsOf(l, appName) :
    \A k \in eventsOf(l, appName) :
      \/ l[k].timestamp < l[i].timestamp
      \/ (l[k].timestamp = l[i].timestamp /\ k <= i)

\* a getAllApps / getAppVersions call that returned
GotAllApps == call.op = "getAllApps" /\ ~call.threw
GotAppVersions == call.op = "getAppVersions" /\ ~call.threw

\* C1: for every app with events, the state getAllApps returns for it is the
\* event with the greatest timestamp among the app's events, the last
\* appended of them when several share that timestamp, whatever the order of
\* the appends; the whole state (cid, version, status, deployed) is that
\* one event.
C1_LatestEventWins ==
  GotAllApps =>
    \A a \in Apps :
      eventsOf(log, a) # {} =>
        /\ \E j \in 1..Len(call.value) : call.value[j].appName = a
        /\ \A j \in 1..Len(call.value) :
             call.value[j].appName = a =>
               call.value[j] = log[latestEventIndex(log, a)]

\* C1 witness: two events of blog share the greatest timestamp, an older
\* event was appended after them, and the state returned is the second.
C1_Witness ==
  /\ GotAllApps
  /\ Len(log) = 3
  /\ \A i \in 1..3 : log[i].appName = "blog"
  /\ log[1].timestamp = log[2].timestamp
  /\ log[3].timestamp < log[2].timestamp
  /\ log[1].cid # log[2].cid
  /\ call.value = <<log[2]>>

\* C2: for an app with events, getAppVersions returns exactly one entry with
\* deployed = true, and it has the greatest timestamp among the app's events
\* that were marked deployed; every other entry is returned not deployed.
C2_ExactlyOneDeployed ==
  (GotAppVersions /\ eventsOf(log, call.appName) # {}) =>
    LET v == call.value
        dep == {i \in 1..Len(v) : v[i].deployed}
        orig == {k \in eventsOf(log, call.appName) : log[k].deployed}
    IN /\ Cardinality(dep) = 1
       /\ \A i \in dep :
            /\ \A k \in orig : log[k].timestamp <= v[i].timestamp
            /\ \E k \in orig : /\ log[k].timestamp = v[i].timestamp
                               /\ log[k].cid = v[i].cid
                               /\ log[k].version = v[i].tag

\* C2 witness: (t=1, v1, deployed) then (t=2, v2, deployed) for blog gives
\* [v2 deployed, v1 not deployed].
C2_Witness ==
  /\ GotAppVersions
  /\ call.appName = "blog"
  /\ Len(log) = 2
  /\ log[1].appName = "blog" /\ log[1].version = "v1" /\ log[1].timestamp = 1
  /\ log[1].deployed
  /\ log[2].appName = "blog" /\ log[2].version = "v2" /\ log[2].timestamp = 2
  /\ log[2].deployed
  /\ Len(call.value) = 2
  /\ call.value[1].tag = "v2" /\ call.value[1].deployed
  /\ call.value[2].tag = "v1" /\ ~call.value[2].deployed

\* C3: getAppVersions(appName) returns one entry per event of that app and
\* none for another app's events, each with the tag, cid and timestamp of
\* its event, by non-increasing timestamp.
C3_OneEntryPerEvent ==
  GotAppVersions =>
    LET v == call.value
        mine == SelectSeq(log, LAMBDA e : e.appName = call.appName)
        n == Len(mine)
    IN /\ Len(v) = n
       /\ \E p \in [1..n -> 1..n] :
            /\ \A i, j \in 1..n : p[i] = p[j] => i = j
            /\ \A i \in 1..n : /\ v[i].tag = mine[p[i]].version
                               /\ v[i].cid = mine[p[i]].cid
                               /\ v[i].timestamp = mine[p[i]].timestamp
       /\ \A i \in 1..(n - 1) : v[i].timestamp >= v[i + 1].timestamp

\* C3 witness: the feed holds events of both apps, blog's appended oldest
\* last (a start, a stop or a rollback among them), and the two entries
\* returned for blog are in the other order.
C3_Witness ==
  /\ GotAppVersions
  /\ call.appName = "blog"
  /\ Len(log) = 3
  /\ log[1].appName = "blog" /\ log[2].appName = "shop" /\ log[3].appName = "blog"
  /\ log[1].timestamp < log[3].timestamp
  /\ log[3].status = "stopped"
  /\ Len(call.value) = 2
  /\ call.value[1].timestamp = log[3].timestamp
  /\ call.value[2].timestamp = log[1].timestamp

\* C4: getAllApps returns at most one state per appName, and a state for
\* an appName exactly when the feed holds an event of that appName.
C4_OneStatePerApp ==
  GotAllApps =>
    /\ \A i, j \in 1..Len(call.value) :
         call.value[i].appName = call.value[j].appName => i = j
    /\ \A a \in Apps :
         (\E j \in 1..Len(call.value) : call.value[j].appName = a)
           <=> eventsOf(log, a) # {}

\* C4 witness: blog has two events, shop one, and two states are returned.
C4_Witness ==
  /\ GotAllApps
  /\ Cardinality(eventsOf(log, "blog")) = 2
  /\ Cardinality(eventsOf(log, "shop")) = 1
  /\ Len(call.value) = 2

\* the publishes of the last invocation on a topic, as places in its trace
publishesOn(topic) ==
  {i \in 1..Len(call.trace) :
     call.trace[i].k = "publish" /\ call.trace[i].topic = topic}

\* the appends of the last invocation to the feed
addsOf == {i \in 1..Len(call.trace) : call.trace[i].k = "add"}

\* the last invocation appended exactly one event to the feed it found
AppendedOne ==
  /\ Len(log) = Len(call.logBefore) + 1
  /\ SubSeq(log, 1, Len(call.logBefore)) = call.logBefore
  /\ Cardinality(addsOf) = 1

Reads == {"getAllApps", "getAppVersions"}

TagMissing ==
  /\ call.tag # NoTag
  /\ eventsOf(call.logBefore, call.appName) # {}
  /\ \A i \in eventsOf(call.logBefore, call.appName) :
       call.logBefore[i].version # call.tag

\* C8: when the app has events but none whose version is the requested tag,
\* rollbackToVersion and startApplication return success = false with the
\* version-not-found message, append nothing and publish nothing.
C8_VersionNotFound ==
  (call.op \in {"rollbackToVersion", "startApplication"} /\ TagMissing) =>
    /\ ~call.success
    /\ ~call.threw
    /\ call.message = VersionNotFound
    /\ log = call.logBefore
    /\ \A i \in 1..Len(call.trace) : call.trace[i].k \notin {"publish", "add"}

\* C8 witness: rollback of blog to v2 when blog has two events, both v1.
C8_Witness ==
  /\ call.op = "rollbackToVersion" /\ call.appName = "blog" /\ call.tag = "v2"
  /\ TagMissing
  /\ Cardinality(eventsOf(log, "blog")) = 2
  /\ call.message = VersionNotFound

\* C9: rollbackToVersion for an app without events returns the
\* no-versions-found failure, with or without a tag; without a tag, for an
\* app whose entries are all reported deployed, it returns the
\* no-previous-version failure; either way the failure is a returned value,
\* nothing is thrown, and the feed is unchanged.
C9_NoVersions ==
  LET versions == getAppVersions(call.logBefore, call.appName)
  IN call.op = "rollbackToVersion" =>
       /\ eventsOf(call.logBefore, call.appName) = {} =>
            /\ ~call.success /\ ~call.threw
            /\ call.message = NoVersionsFound
            /\ log = call.logBefore
       /\ (/\ call.tag = NoTag
           /\ Len(versions) > 0
           /\ \A i \in 1..Len(versions) : versions[i].deployed) =>
            /\ ~call.success /\ ~call.threw
            /\ call.message = NoPreviousVersion
            /\ log = call.logBefore

\* C9 witness: rollback to a tag for blog while the feed holds only an
\* event of shop.
C9_Witness ==
  /\ call.op = "rollbackToVersion" /\ call.appName = "blog" /\ call.tag = "v1"
  /\ Len(log) = 1 /\ log[1].appName = "shop"
  /\ call.message = NoVersionsFound

\* C10: when the app has an event whose version is versionTag,
\* startApplication appends exactly one event with deployed = true,
\* status = running, version = versionTag and the cid of the version entry
\* matched, publishes exactly one start action with that cid on the
\* app-actions topic, and returns success.
C10_StartVersion ==
  LET versions == getAppVersions(call.logBefore, call.appName)
      matched == {i \in 1..Len(versions) : versions[i].tag = call.tag}
  IN (call.op = "startApplication" /\ matched # {}) =>
       /\ call.success
       /\ AppendedOne
       /\ log[Len(log)].appName = call.appName
       /\ log[Len(log)].deployed
       /\ log[Len(log)].status = "running"
       /\ log[Len(log)].version = call.tag
       /\ \E i \in matched :
            /\ \A k \in matched : i <= k
            /\ log[Len(log)].cid = versions[i].cid
       /\ Cardinality(publishesOn("debros-app-actions")) = 1
       /\ \A i \in publishesOn("debros-app-actions") :
            /\ call.trace[i].m.action = "start"
            /\ call.trace[i].m.appName = call.appName
            /\ call.trace[i].m.cid = log[Len(log)].cid

\* C10 witness: blog has v1 and then v2, the newest; start of v1 appends an
\* event with v1's cid.
C10_Witness ==
  /\ call.op = "startApplication" /\ call.success /\ call.tag = "v1"
  /\ Len(call.logBefore) = 2
  /\ call.logBefore[1].version = "v1" /\ call.logBefore[1].appName = "blog"
  /\ call.logBefore[2].version = "v2" /\ call.logBefore[2].appName = "blog"
  /\ call.logBefore[1].timestamp < call.logBefore[2].timestamp
  /\ Len(log) = 3 /\ log[3].cid = "c1" /\ log[3].version = "v1"

\* C11: stopApplication on an app with events appends exactly one event,
\* equal to the state getAllApps gave for the app in appName, cid, version,
\* deployed and domain, with status = stopped and the timestamp of the
\* call; the feed left is the same for force true and false, and force is
\* carried by the stop action published.
C11_StopClonesCurrent ==
  LET apps == getAllApps(call.logBefore)
      ai == findIndexApp(apps, call.appName)
      ev == log[Len(log)]
  IN (call.op = "stopApplication"
      /\ eventsOf(call.logBefore, call.appName) # {}) =>
       /\ call.success
       /\ AppendedOne
       /\ ev.appName = apps[ai].appName
       /\ ev.cid = apps[ai].cid
       /\ ev.version = apps[ai].version
       /\ ev.deployed = apps[ai].deployed
       /\ ev.domain = apps[ai].domain
       /\ ev.status = "stopped"
       /\ ev.timestamp \in Times
       /\ DOMAIN ev = DOMAIN apps[ai]
       /\ \A force \in BOOLEAN :
            stopApplication(call.logBefore, call.appName, force,
                            ev.timestamp, "none").log = log
       /\ \A i \in publishesOn("debros-app-actions") :
            call.trace[i].m.action = "stop" /\ call.trace[i].m.force = call.force

\* C11 witness: blog's state is v2 under its custom domain, an older v1
\* event appended after it; a forced stop clones the v2 state.
C11_Witness ==
  /\ call.op = "stopApplication" /\ call.force /\ call.success
  /\ Len(call.logBefore) = 2
  /\ call.logBefore[1].appName = "blog" /\ call.logBefore[1].version = "v2"
  /\ call.logBefore[1].timestamp = 2
  /\ call.logBefore[2].appName = "blog" /\ call.logBefore[2].version = "v1"
  /\ call.logBefore[2].timestamp = 1
  /\ Len(log) = 3
  /\ log[3].cid = "c2" /\ log[3].version = "v2" /\ log[3].status = "stopped"
  /\ log[3].domain = "www.debros.sol" /\ log[3].deployed

storedNow(ev) ==
  {w \in Writers : pending[w].pc = "stored" /\ pending[w].ev = ev}

\* C14: when the storeAppData calls of two writers for the same app
\* overlap, in whichever order their db.add run, the feed holds an entry for
\* each call and getAppVersions of the app returns an entry for each: as
\* many as there are calls, also when the two events are equal.
C14_BothStored ==
  \A w \in Writers :
    pending[w].pc = "stored" =>
      LET ev == pending[w].ev
          versions == getAppVersions(log, ev.appName)
      IN /\ Cardinality({i \in 1..Len(log) : log[i] = ev})
              >= Cardinality(storedNow(ev))
         /\ Cardinality({i \in 1..Len(versions) :
                           /\ versions[i].tag = ev.version
                           /\ versions[i].cid = ev.cid
                           /\ versions[i].timestamp = ev.timestamp})
              >= Cardinality(storedNow(ev))

\* C14 witness: both writers have added an event of blog with the same
\* timestamp and neither has returned; w2's event is in the feed before
\* w1's.
C14_Witness ==
  /\ pending["w1"].pc = "stored" /\ pending["w2"].pc = "stored"
  /\ pending["w1"].ev.appName = "blog" /\ pending["w2"].ev.appName = "blog"
  /\ pending["w1"].ev.timestamp = pending["w2"].ev.timestamp
  /\ pending["w1"].ev.cid # pending["w2"].ev.cid
  /\ Len(log) = 3
  /\ log[2] = pending["w2"].ev /\ log[3] = pending["w1"].ev

\* C15: an upload under the name of an app that has events in the feed,
\* with a tag none of them has, is accepted: it appends one deployment event
\* for the app with that tag, deployed = true and status = running.
C15_UploadUpdates ==
  (/\ call.op = "uploadCommand"
   /\ eventsOf(call.logBefore, call.appName) # {}
   /\ \A i \in eventsOf(call.logBefore, call.appName) :
        call.logBefore[i].version # call.tag) =>
    /\ call.success
    /\ AppendedOne
    /\ log[Len(log)].appName = call.appName
    /\ log[Len(log)].version = call.tag
    /\ log[Len(log)].deployed
    /\ log[Len(log)].status = "running"

\* C16: start with the version left out, for an app that has events,
\* succeeds and appends an event with the cid of the app's most recent
\* version, whatever the tags of its versions.
C16_StartDefaultsToLatest ==
  LET versions == getAppVersions(call.logBefore, call.appName)
  IN (/\ call.op = "startApplication"
      /\ call.tag = tagOrLatest("")
      /\ Len(versions) > 0) =>
       /\ call.success
       /\ AppendedOne
       /\ log[Len(log)].cid = versions[1].cid

\* the commands that store an event
Commands ==
  {"announceDeployment", "rollbackToVersion", "startApplication",
   "stopApplication"}

\* C17: when a publish fails after the event of the invocation was added to
\* the feed, the invocation still ends well: announceDeployment does not
\* throw, and rollbackToVersion, startApplication and stopApplication return
\* success = true.
C17_BroadcastFailureHarmless ==
  (/\ call.op \in Commands
   /\ call.fault \in {"publish", "pubdata"}
   /\ addsOf # {}) =>
    /\ ~call.threw
    /\ call.op # "announceDeployment" => call.success

\* the reads
PureReads == {"getAllApps", "getAppVersions", "checkAppNameAvailability"}

\* C18: getAllApps, getAppVersions and checkAppNameAvailability add nothing
\* to the feed and publish on no topic, whether they return or throw: the
\* feed after the call is the feed before it.
C18_ReadsArePure ==
  call.op \in PureReads =>
    /\ log = call.logBefore
    /\ \A i \in 1..Len(call.trace) : call.trace[i].k \notin {"publish", "add"}

\* C18 witness: checkAppNameAvailability of a free name throws while the
\* feed holds two events of the other app.
C18_Witness ==
  /\ call.op = "checkAppNameAvailability" /\ call.appName = "shop"
  /\ call.threw
  /\ Len(log) = 2 /\ log[1].appName = "blog" /\ log[2].appName = "blog"

\* the state getAllApps gives for the app of the last invocation
stateOf(l, appName) == getAllApps(l)[findIndexApp(getAllApps(l), appName)]

\* C19: with one writer whose events carry strictly increasing timestamps,
\* after a successful announceDeployment, startApplication or
\* rollbackToVersion the app's state in getAllApps is running with the cid
\* and version of the command; after a successful stopApplication of an app
\* with events it is stopped with the cid and version it had; and no event
\* has a status other than running, stopped or unknown.
C19_StateMachine ==
  /\ (/\ call.op \in {"announceDeployment", "startApplication",
                       "rollbackToVersion"}
      /\ call.success) =>
       /\ stateOf(log, call.appName).status = "running"
       /\ stateOf(log, call.appName).cid = call.cid
       /\ stateOf(log, call.appName).version = call.version
  /\ (/\ call.op = "stopApplication"
      /\ call.success
      /\ eventsOf(call.logBefore, call.appName) # {}) =>
       /\ stateOf(log, call.appName).status = "stopped"
       /\ stateOf(log, call.appName).cid
            = stateOf(call.logBefore, call.appName).cid
       /\ stateOf(log, call.appName).version
            = stateOf(call.logBefore, call.appName).version
  /\ \A i \in 1..Len(log) : log[i].status \in {"running", "stopped", "unknown"}

\* C19 witness: blog is deployed as v2, stopped, and started again as v2
\* at three instants in a row; its state is running.
C19_Witness ==
  /\ call.op = "startApplication" /\ call.success /\ call.appName = "blog"
  /\ Len(log) = 3
  /\ log[1].version = "v2" /\ log[1].timestamp = 1
  /\ log[2].status = "stopped" /\ log[2].timestamp = 2
  /\ log[3].status = "running" /\ log[3].timestamp = 3
  /\ stateOf(log, "blog") = log[3]

\* C20: in announceDeployment, rollbackToVersion, startApplication and
\* stopApplication the event is added to the feed before the message of the
\* command is published on the deploy or the app-actions topic.
C20_AppendBeforeBroadcast ==
  (call.op \in Commands /\ addsOf # {}) =>
    \A i \in publishesOn("debros-deploy") \cup publishesOn("debros-app-actions") :
      \A j \in addsOf : j < i

\* the initIpfs and stopIpfs of the last invocation, as places in its trace
connectionEvents ==
  {i \in 1..Len(call.trace) : call.trace[i].k \in {"initIpfs", "stopIpfs"}}

\* C21: an invocation that has called initIpfs, itself or through
\* getApplicationDataDB, has called stopIpfs after its last initIpfs when it
\* returns or throws, on the normal path, the early returns and the error
\* paths alike.
C21_ReleasedOnExit ==
  connectionEvents # {} =>
    \E i \in connectionEvents :
      /\ \A j \in connectionEvents : j <= i
      /\ call.trace[i].k = "stopIpfs"

\* C22: a successful deleteApplication of an app appends an event of that
\* app: the feed is longer after the delete than before it.
C22_DeleteAppendsEvent ==
  (/\ call.op = "deleteApplication"
   /\ call.success
   /\ eventsOf(call.logBefore, call.appName) # {}) =>
    /\ Len(log) > Len(call.logBefore)
    /\ log[Len(log)].appName = call.appName

\* C24: stopApplication of an app with no event in the feed returns
\* success, neither throwing nor returning a failure; it appends nothing, and
\* its stop action is still published on debros-app-actions.
C24_StopUnknownSucceeds ==
  (/\ call.op = "stopApplication"
   /\ eventsOf(call.logBefore, call.appName) = {}) =>
    /\ ~call.threw
    /\ call.success
    /\ log = call.logBefore
    /\ addsOf = {}
    /\ Cardinality(publishesOn("debros-app-actions")) = 1
    /\ \A i \in publishesOn("debros-app-actions") :
         call.trace[i].m = stopMessage(call.appName, call.force)

\* C24 witness: a stop of an app without events, on a feed that holds another
\* app's, which returned success with its stop action published.
C24_Witness ==
  /\ call.op = "stopApplication"
  /\ eventsOf(call.logBefore, call.appName) = {}
  /\ call.logBefore # <<>>
  /\ call.success
  /\ publishesOn("debros-app-actions") # {}

\* C25: the two views agree. For every app with events in the feed, the
\* entry getAppVersions returns with deployed=true has the cid and version
\* of the state getAllApps returns for the app, also when several events of
\* the app carry the same timestamp.
C25_ViewsAgree ==
  \A a \in Apps :
    eventsOf(log, a) # {} =>
      LET versions == getAppVersions(log, a)
          state == stateOf(log, a)
      IN \A i \in 1..Len(versions) :
           versions[i].deployed =>
             /\ versions[i].cid = state.cid
             /\ versions[i].tag = state.version

\* C26: a rollback without a version tag goes to a version other than the
\* current one: after any successful uploads, starts, stops and rollbacks,
\* the cid and version a successful tagless rollbackToVersion returns are
\* not both those of the entry getAppVersions marked deployed.
C26_RollbackLeavesCurrent ==
  (/\ call.op = "rollbackToVersion"
   /\ call.tag = NoTag
   /\ call.success) =>
    LET versions == getAppVersions(call.logBefore, call.appName)
    IN \A i \in 1..Len(versions) :
         versions[i].deployed =>
           ~(versions[i].cid = call.cid /\ versions[i].tag = call.version)

\* the connection as one flag over the trace of the last invocation: open
\* before step i when the last initIpfs or stopIpfs before i is an initIpfs
openBefore(i) ==
  \E j \in connectionEvents :
    /\ j < i
    /\ call.trace[j].k = "initIpfs"
    /\ \A k \in connectionEvents : k < i => k <= j

\* C28: within one invocation every publish and every add to the feed runs
\* while the connection is open, the connection being one flag that the
\* nested getAppVersions, getAllApps and storeAppData open and close as
\* well; and no stopIpfs runs on a connection that is already closed.
C28_OpenWhileUsed ==
  \A i \in 1..Len(call.trace) :
    call.trace[i].k \in {"publish", "add", "stopIpfs"} => openBefore(i)

\* C29: a command is all or nothing. When rollbackToVersion,
\* startApplication or stopApplication returns success=false, or
\* announceDeployment throws, the invocation added nothing to the feed and
\* published nothing on debros-deploy or debros-app-actions.
C29_AllOrNothing ==
  (/\ call.op \in Commands
   /\ (call.threw \/ ~call.success)) =>
    /\ log = call.logBefore
    /\ addsOf = {}
    /\ publishesOn("debros-deploy") = {}
    /\ publishesOn("debros-app-actions") = {}

\* C30: a stop never changes which version is current. When the db.add of a
\* stopApplication runs, the event it adds has the cid and version the app's
\* state in getAllApps has at that moment, also when another writer's
\* deployment, rollback or start of the app was added after the stop read
\* the state.
C30_StopKeepsCurrent ==
  [][\A w \in Writers :
       (/\ pending[w].pc = "add"
        /\ pending'[w].pc = "stored"
        /\ pending[w].ev.status = "stopped") =>
         LET state == stateOf(log, pending[w].ev.appName)
         IN /\ pending[w].ev.cid = state.cid
            /\ pending[w].ev.version = state.version]_vars

\* C27: application names are unique across uploads. For every app name the
\* feed holds at most one event stored by uploadCommand, also when two
\* uploads of the name run at the same time in two processes, each with its
\* checkAppNameAvailability and, later, its announceDeployment.
C27_OneUploadPerName ==
  \A a \in Apps :
    Cardinality({i \in uploads : log[i].appName = a}) <= 1

\* a received event that is a deployment announcement: on debros-deploy,
\* JSON, of type deployment
IsDeployment(event) ==
  /\ event.topic = "debros-deploy"
  /\ event.data.json
  /\ event.data.value.type = "deployment"

\* the calls of the callback of listener `handler` for the event that
\* arrived as number `at`
callsFor(handler, at) ==
  {k \in 1..Len(listener.invoked) :
     listener.invoked[k].handler = handler /\ listener.invoked[k].at = at}

\* C23: after listenForDeployments(callback) the callback is called exactly
\* once for every message received on debros-deploy whose type is
\* deployment, a rollback's announcement included, and never for a message
\* of another topic or type; what is thrown while a message is handled, by
\* the parse of a malformed payload or by the callback, is caught and does
\* not leave the listener, and the messages after it are handled as well.
C23_OncePerDeployment ==
  /\ \A handler \in 1..Len(listener.handlers) :
       \A at \in 1..Len(listener.received) :
         Cardinality(callsFor(handler, at)) =
           IF /\ at > listener.handlers[handler].since
              /\ IsDeployment(listener.received[at])
           THEN 1 ELSE 0
  /\ listener.escaped = <<>>

\* C23 witness: a listener whose callback throws was called for two
\* messages, the second of them a rollback's, after bytes that do not parse
\* had arrived and been logged.
C23_Witness ==
  \E handler \in 1..Len(listener.handlers) :
    /\ listener.handlers[handler].callback = "throws"
    /\ Len(listener.received) = 3
    /\ listener.received[2].data = Garbage
    /\ callsFor(handler, 1) # {}
    /\ callsFor(handler, 3) # {}
    /\ "isRollback" \in DOMAIN listener.received[3].data.value
    /\ Len(listener.logged) >= 3

====
